---- MODULE Spec2Model ----
(***************************************************************************)
(* A model of rsdiv: the Maximal Marginal Relevance reranker               *)
(* (rsdiv/diversity/mmr.py) and the recommender base class                 *)
(* (rsdiv/recommenders/base.py).                                           *)
(*                                                                         *)
(* Real numbers are modelled as scaled integers.  Quality and similarity   *)
(* scores are given in tenths (0.9 is 9), lambda is lbd / LambdaDen, and   *)
(* an MMR score lambda*q - (1-lambda)*m is kept multiplied by LambdaDen,   *)
(* which preserves every comparison argmax makes.  Negative infinity is    *)
(* the integer NegInf, below every finite value of the model.  The         *)
(* rounding of floating-point arithmetic is not modelled.  Array indices   *)
(* are zero-based as in the source: an array of length n is a function on  *)
(* 0..n-1; table rows are numbered from 1.                                 *)
(***************************************************************************)
EXTENDS Integers, Sequences, FiniteSets, TLC

\* ------------------------------------------------------------------ bounds
\* Largest number of candidates handed to rerank.
MaxN == 3
\* lambda ranges over 0/LambdaDen, 1/LambdaDen, ..., LambdaDen/LambdaDen.
LambdaDen == 2

\* Largest number of rows of the interaction table.
MaxRows == 3
\* Largest top_n asked of the recommender.
MaxTopN == 4

\* Quality scores (tenths) a candidate may have.
QualityVals == {7, 8, 9}
\* Off-diagonal similarity scores (tenths), and the self-similarity values.
SimVals == {1, 9}
DiagVals == {0, 9}

\* -inf, +inf and nan as jax.numpy produces them; argmax ranks nan highest.
NegInf == -1000
PosInf == 1000
NaN == 1001

\* Raw user and item identifiers, interaction values, scorer outputs.
RawUserIds == {10, 20}
RawItemIds == {5, 6, 7}
InteractionVals == {1}
ScoreVals == {1, 2}

\* test_size is a Python int ("i") or float ("f"), kept in tenths.
TestSizes ==
    {[kind |-> "f", tenths |-> 3], [kind |-> "f", tenths |-> 25],
     [kind |-> "i", tenths |-> 10], [kind |-> "i", tenths |-> 20],
     [kind |-> "i", tenths |-> 30]}

Min(a, b) == IF a <= b THEN a ELSE b

VARIABLES
    \* MaximalMarginalRelevance.rerank
    lbd,                \* self.lbd, as the numerator of lbd / LambdaDen
    k_arg,              \* the k the caller passed
    quality_scores,     \* the quality vector
    sim_arg,            \* the similarity matrix the caller passed
    similarity_scores,  \* the local matrix, columns masked as the loop runs
    k,                  \* the local k, clamped on entry
    new_selection,      \* the indices selected so far, in order
    scores,             \* the score vector of the last iteration
    iter,               \* number of loop iterations completed
    mmr_pc              \* "call", "loop", "done"

VARIABLES
    \* BaseRecommender
    raw_interaction,    \* the table handed to __init__: rows <<userId, itemId, interaction>>
    items,              \* self.items, the catalog: rows [itemId, title]
    test_size,          \* self.test_size
    random_split,       \* self.random_split
    df_interaction,     \* self.df_interaction, the normalized table
    n_users,            \* self.n_users
    n_items,            \* self.n_items
    train_index,        \* source row numbers of the train frame, in its order
    test_index,         \* source row numbers of the test frame, in its order
    train_mat,          \* self.train_mat: [shape, entries]
    test_mat,           \* self.test_mat
    rec_pc,             \* "new", "normalized", "ready", "error"
    call,               \* the last call made: [op, user_id, top_n]
    predict_out,        \* what self.predict returned to that call
    ret,                \* what the call returned
    status              \* "ok", or the exception the call raised

mmr_vars == <<lbd, k_arg, quality_scores, sim_arg, similarity_scores, k,
              new_selection, scores, iter, mmr_pc>>

rec_vars == <<raw_interaction, items, test_size, random_split, df_interaction,
              n_users, n_items, train_index, test_index, train_mat, test_mat,
              rec_pc, call, predict_out, ret, status>>

vars == <<mmr_vars, rec_vars>>

\* ------------------------------------------------------- jax.numpy helpers
\* quality_scores.shape[0]
NumCandidates(q) == Cardinality(DOMAIN q)

\* A variant of argmax that returns the last index holding the greatest value.
ArgMaxLastTie(v) ==
    CHOOSE i \in DOMAIN v :
        /\ \A j \in DOMAIN v : v[j] <= v[i]
        /\ \A j \in DOMAIN v : j > i => v[j] < v[i]

\* jnp.argmax over a vector: the first index holding the greatest value.
ArgMax(v) ==
    CHOOSE i \in DOMAIN v :
        /\ \A j \in DOMAIN v : v[j] <= v[i]
        /\ \A j \in DOMAIN v : j < i => v[j] < v[i]

\* A variant of the column mask that drops the update and keeps the matrix.
MaskColumnDropped(sim, col) == sim

\* similarity_scores.at[:, col].set(-jnp.inf)
MaskColumn(sim, col) ==
    [i \in DOMAIN sim |-> [j \in DOMAIN sim[i] |-> IF j = col THEN NegInf ELSE sim[i][j]]]

\* jnp.max(similarity_scores, axis=1)[i]
RowMax(sim, i) ==
    CHOOSE m \in {sim[i][j] : j \in DOMAIN sim[i]} :
        \A j \in DOMAIN sim[i] : sim[i][j] <= m

\* A variant of the score with the two weights exchanged.
MarginalScoreSwapped(l, q, sim, i) ==
    LET m == RowMax(sim, i) IN
    IF m = NegInf
    THEN IF l = 0 THEN NaN ELSE PosInf
    ELSE (LambdaDen - l) * q[i] - l * m

\* (self.lbd * quality_scores - (1. - self.lbd) * jnp.max(...))[i], times
\* LambdaDen.  A row whose columns are all masked has maximum -inf:
\* -(1-lambda) * -inf is +inf, or nan when 1-lambda is 0.
MarginalScore(l, q, sim, i) ==
    LET m == RowMax(sim, i) IN
    IF m = NegInf
    THEN IF LambdaDen - l = 0 THEN NaN ELSE PosInf
    ELSE l * q[i] - (LambdaDen - l) * m

\* A variant of the selection mask that drops the update and keeps the scores.
MaskSelectedDropped(s, sel) == s

\* scores.at[new_selection].set(-jnp.inf)
MaskSelected(s, sel) ==
    [i \in DOMAIN s |-> IF \E p \in DOMAIN sel : sel[p] = i THEN NegInf ELSE s[i]]

\* ------------------------------------------------------------ rerank inputs
\* Similarity matrices of n candidates.  Up to three candidates every
\* off-diagonal entry is free (the matrix need not be symmetric); beyond
\* that the matrices are the symmetric ones.  The diagonal holds one
\* self-similarity value.
SimMatrices(n) ==
    LET idx == 0..n-1
        free == IF n <= 3 THEN {p \in idx \X idx : p[1] # p[2]}
                ELSE {p \in idx \X idx : p[1] < p[2]}
        key(i, j) == IF n <= 3 \/ i < j THEN <<i, j>> ELSE <<j, i>>
    IN  {[i \in idx |-> [j \in idx |-> IF i = j THEN d ELSE f[key(i, j)]]]
            : f \in [free -> SimVals], d \in DiagVals}

\* No recommender has been built.
RecIdle ==
    /\ raw_interaction = <<>> /\ items = <<>>
    /\ test_size = [kind |-> "i", tenths |-> 0] /\ random_split = FALSE
    /\ df_interaction = <<>> /\ n_users = 0 /\ n_items = 0
    /\ train_index = <<>> /\ test_index = <<>>
    /\ train_mat = <<>> /\ test_mat = <<>>
    /\ rec_pc = "idle" /\ call = <<>> /\ predict_out = <<>>
    /\ ret = <<>> /\ status = "ok"

InitMMR ==
    /\ RecIdle
    /\ lbd \in 0..LambdaDen
    /\ k_arg \in -1..(MaxN + 1)
    /\ \E n \in 1..MaxN :
          /\ quality_scores \in [0..n-1 -> QualityVals]
          /\ sim_arg \in SimMatrices(n)
    /\ similarity_scores = sim_arg
    /\ k = k_arg
    /\ new_selection = <<>>
    /\ scores = <<>>
    /\ iter = 0
    /\ mmr_pc = "call"

\* ------------------------------------------------------------------ rerank
\* mmr.py 23-28: clamp k, pick the best quality score, mask its column.
RerankEnter ==
    /\ mmr_pc = "call"
    /\ LET first == ArgMax(quality_scores) IN
          /\ k' = Min(k, NumCandidates(quality_scores))
          /\ new_selection' = <<first>>
          /\ similarity_scores' = MaskColumn(similarity_scores, first)
    /\ mmr_pc' = "loop"
    /\ UNCHANGED <<lbd, k_arg, quality_scores, sim_arg, scores, iter>>
    /\ UNCHANGED rec_vars

\* mmr.py 29-34: one iteration of `for _ in range(k - 1)`.
RerankIterate ==
    /\ mmr_pc = "loop"
    /\ iter < k - 1
    /\ LET raw == [i \in DOMAIN quality_scores |->
                      MarginalScore(lbd, quality_scores, similarity_scores, i)]
           masked == MaskSelected(raw, new_selection)
           pick == ArgMax(masked)
       IN /\ scores' = masked
          /\ new_selection' = Append(new_selection, pick)
          /\ similarity_scores' = MaskColumn(similarity_scores, pick)
    /\ iter' = iter + 1
    /\ UNCHANGED <<lbd, k_arg, quality_scores, sim_arg, k, mmr_pc>>
    /\ UNCHANGED rec_vars

\* mmr.py 35: the range is exhausted (at once when k <= 1), return.
RerankReturn ==
    /\ mmr_pc = "loop"
    /\ ~(iter < k - 1)
    /\ mmr_pc' = "done"
    /\ UNCHANGED <<lbd, k_arg, quality_scores, sim_arg, similarity_scores, k,
                   new_selection, scores, iter>>
    /\ UNCHANGED rec_vars

NextMMR ==
    \/ RerankEnter
    \/ RerankIterate
    \/ RerankReturn

SpecMMR == InitMMR /\ [][NextMMR]_vars

\* ------------------------------------------------------- claims on rerank
\* The worked example of the MMR diversity property, in tenths.
ExampleQuality == [i \in 0..2 |-> 9 - i]
ExampleSimilarity ==
    [i \in 0..2 |-> [j \in 0..2 |->
        IF i = j THEN 0 ELSE IF i + j = 1 THEN 9 ELSE 1]]

IsExampleCall ==
    /\ 2 * lbd = LambdaDen
    /\ k_arg = 2
    /\ quality_scores = ExampleQuality
    /\ sim_arg = ExampleSimilarity

\* C1: on the worked example (lambda = 0.5, k = 2, quality [0.9, 0.8, 0.7])
\* rerank returns the index sequence [0, 2].
C1_ExampleReturns02 ==
    (mmr_pc = "done" /\ IsExampleCall) => new_selection = <<0, 2>>

Selected(sel) == {sel[p] : p \in DOMAIN sel}

QualityBefore(q, j, i) == q[j] > q[i] \/ (q[j] = q[i] /\ j < i)

\* C3: with lambda = 1 and k >= 1 the returned sequence is the first
\* min(k, n) candidates in descending quality order (ties by lowest index),
\* whatever the similarity matrix holds.
C3_QualityOnly ==
    (mmr_pc = "done" /\ lbd = LambdaDen /\ k_arg >= 1) =>
        /\ Len(new_selection) = Min(k_arg, NumCandidates(quality_scores))
        /\ \A p \in DOMAIN new_selection :
              Cardinality({j \in DOMAIN quality_scores :
                  QualityBefore(quality_scores, j, new_selection[p])}) = p - 1

C3_Witness ==
    /\ mmr_pc = "done" /\ lbd = LambdaDen /\ k_arg = 2
    /\ quality_scores = [i \in 0..2 |-> IF i = 2 THEN 9 ELSE 8]
    /\ new_selection = <<2, 0>>
    /\ sim_arg[0][2] = 9 /\ sim_arg[1][2] = 1 /\ sim_arg[0][1] = 9

\* C4: rerank called with k <= 0 returns an empty sequence.
C4_NonPositiveKReturnsEmpty ==
    (mmr_pc = "done" /\ k_arg <= 0) => new_selection = <<>>

\* The greatest entry of row i of the matrix passed in, over the columns
\* in cols.
MaxOver(sim, i, cols) ==
    CHOOSE m \in {sim[i][j] : j \in cols} : \A j \in cols : sim[i][j] <= m

\* lambda * quality(i) - (1 - lambda) * max over the columns in cols of
\* similarity(i, j), times LambdaDen.
Objective(i, cols) ==
    lbd * quality_scores[i] - (LambdaDen - lbd) * MaxOver(sim_arg, i, cols)

\* C10: the first selected index is the lowest index of maximal quality;
\* every later one is the lowest-index candidate, among those not yet
\* selected, that maximises lambda * quality(i) - (1 - lambda) * max_j
\* similarity(i, j), j over the columns of the candidates not yet selected.
C10_GreedyChoice ==
    mmr_pc # "call" =>
        /\ \A j \in DOMAIN quality_scores :
              /\ quality_scores[j] <= quality_scores[new_selection[1]]
              /\ j < new_selection[1] =>
                    quality_scores[j] < quality_scores[new_selection[1]]
        /\ \A p \in 2..Len(new_selection) :
              LET rest == DOMAIN quality_scores \
                              Selected(SubSeq(new_selection, 1, p - 1))
                  pick == new_selection[p]
              IN  /\ pick \in rest
                  /\ \A j \in rest :
                        /\ Objective(j, rest) <= Objective(pick, rest)
                        /\ j < pick => Objective(j, rest) < Objective(pick, rest)

\* A second pick that the similarity to a candidate still in play decides:
\* it is not the better of the remaining two by quality.
C10_Witness ==
    /\ mmr_pc = "done"
    /\ NumCandidates(quality_scores) = 3
    /\ Len(new_selection) = 3
    /\ 0 < lbd /\ lbd < LambdaDen
    /\ quality_scores[new_selection[2]] < quality_scores[new_selection[3]]

\* ======================================================== BaseRecommender
\* No rerank call is in progress.
MMRIdle ==
    /\ lbd = 0 /\ k_arg = 0 /\ quality_scores = <<>> /\ sim_arg = <<>>
    /\ similarity_scores = <<>> /\ k = 0 /\ new_selection = <<>>
    /\ scores = <<>> /\ iter = 0 /\ mmr_pc = "idle"

Range(seq) == {seq[p] : p \in DOMAIN seq}

\* The strictly increasing sequence i, i+1, ..., j (empty when j < i).
Interval(i, j) == [p \in 1..(IF j >= i THEN j - i + 1 ELSE 0) |-> i + p - 1]

\* Sequences over S of length 1..n.
SeqsUpTo(S, n) == UNION {[1..m -> S] : m \in 1..n}

\* The permutations of 1..n, as sequences.
Permutations1(n) == {f \in [1..n -> 1..n] : \A a, b \in 1..n : a # b => f[a] # f[b]}

\* A variant that numbers the distinct values in order of first appearance.
CategoricalCodesFirstSeen(col) ==
    [p \in DOMAIN col |->
        LET first == CHOOSE r \in DOMAIN col :
                         col[r] = col[p] /\ \A t \in 1..(r - 1) : col[t] # col[p]
        IN  Cardinality({col[t] : t \in 1..(first - 1)})]

\* pd.Categorical(col).codes: the categories are the distinct values in
\* ascending order, and a value's code is its position among them.
CategoricalCodes(col) ==
    [p \in DOMAIN col |-> Cardinality({v \in Range(col) : v < col[p]})]

Column(table, c) == [p \in DOMAIN table |-> table[p][c]]

\* base.py 38-51: the first three columns, user and item ids replaced by codes.
GetInteractionOf(table) ==
    LET users == CategoricalCodes(Column(table, 1))
        itms == CategoricalCodes(Column(table, 2))
    IN  [p \in DOMAIN table |-> <<users[p], itms[p], table[p][3]>>]

\* base.py 30: self.df_interaction.max()[:2] + 1, one column at a time.
MaxPlusOne(table, c) ==
    1 + CHOOSE m \in Range(Column(table, c)) : \A v \in Range(Column(table, c)) : v <= m

\* int(self.test_size)
IntOf(ts) == ts.tenths \div 10

\* A variant of the train slice that starts one row early.
ContiguousTrainEarly(n, ts) == Interval(IF IntOf(ts) >= 1 THEN IntOf(ts) ELSE 1, n)

\* base.py 56: dataframe.iloc[int(self.test_size):, :]
ContiguousTrain(n, ts) == Interval(IntOf(ts) + 1, n)

\* base.py 57: dataframe.iloc[:int(self.test_size), :]
ContiguousTest(n, ts) == Interval(1, Min(IntOf(ts), n))

\* sklearn's size validation: an int test_size is a count in 1..n-1, a float
\* a fraction strictly between 0 and 1 of which the ceiling is taken; the
\* train rows are the rest, and there must be at least one.
NumTest(n, ts) ==
    IF ts.kind = "i" THEN IntOf(ts) ELSE (ts.tenths * n + 9) \div 10

SplitSizeValid(n, ts) ==
    /\ IF ts.kind = "i"
       THEN ts.tenths > 0 /\ IntOf(ts) < n
       ELSE ts.tenths > 0 /\ ts.tenths < 10
    /\ n - NumTest(n, ts) > 0

\* A variant of the shuffled train part that skips the row after the test part.
ShuffledTrainSkipping(perm, n, ts) ==
    [p \in 1..(n - NumTest(n, ts) - 1) |-> perm[NumTest(n, ts) + 1 + p]]

\* The shuffled split: the first n_test rows of the permutation are test,
\* the rest are train.
ShuffledTest(perm, n, ts) == [p \in 1..NumTest(n, ts) |-> perm[p]]

ShuffledTrain(perm, n, ts) ==
    [p \in 1..(n - NumTest(n, ts)) |-> perm[NumTest(n, ts) + p]]

\* base.py 62-71: sps.coo_matrix((values, (rows, cols)), shape): one stored
\* entry per row of the frame, duplicates and all.
CooMatrix(table, index, nu, ni) ==
    [shape |-> <<nu, ni>>, entries |-> [p \in DOMAIN index |-> table[index[p]]]]

\* coo_matrix.nnz
Nnz(mat) == Len(mat.entries)

\* ------------------------------------------------------------ construction
Catalogs ==
    {<<>>, <<[itemId |-> 2, title |-> "c"], [itemId |-> 0, title |-> "a"]>>}

NoCall ==
    /\ call = <<>> /\ predict_out = <<>> /\ ret = <<>> /\ status = "ok"

\* The arguments of __init__, before any statement of it has run.
InitSplit ==
    /\ MMRIdle
    /\ raw_interaction \in SeqsUpTo(RawUserIds \X RawItemIds \X InteractionVals, MaxRows)
    /\ items \in Catalogs
    /\ test_size \in TestSizes
    /\ random_split \in BOOLEAN
    /\ df_interaction = <<>> /\ n_users = 0 /\ n_items = 0
    /\ train_index = <<>> /\ test_index = <<>>
    /\ train_mat = <<>> /\ test_mat = <<>>
    /\ rec_pc = "new"
    /\ NoCall

\* base.py 29-35: normalize the table, take the dimensions.
GetInteraction ==
    /\ rec_pc = "new"
    /\ df_interaction' = GetInteractionOf(raw_interaction)
    /\ n_users' = MaxPlusOne(df_interaction', 1)
    /\ n_items' = MaxPlusOne(df_interaction', 2)
    /\ rec_pc' = "normalized"
    /\ UNCHANGED <<raw_interaction, items, test_size, random_split, train_index,
                   test_index, train_mat, test_mat, call, predict_out, ret, status>>
    /\ UNCHANGED mmr_vars

\* base.py 36, 53-72: split the rows and build the two matrices.
ProcessInteraction ==
    /\ rec_pc = "normalized"
    /\ LET n == Len(df_interaction) IN
          /\ IF ~random_split /\ test_size.tenths > 10
             THEN /\ train_index' = ContiguousTrain(n, test_size)
                  /\ test_index' = ContiguousTest(n, test_size)
             ELSE /\ SplitSizeValid(n, test_size)
                  /\ \E perm \in Permutations1(n) :
                        /\ train_index' = ShuffledTrain(perm, n, test_size)
                        /\ test_index' = ShuffledTest(perm, n, test_size)
          /\ train_mat' = CooMatrix(df_interaction, train_index', n_users, n_items)
          /\ test_mat' = CooMatrix(df_interaction, test_index', n_users, n_items)
    /\ rec_pc' = "ready"
    /\ UNCHANGED <<raw_interaction, items, test_size, random_split, df_interaction,
                   n_users, n_items, call, predict_out, ret, status>>
    /\ UNCHANGED mmr_vars

\* base.py 59-61: train_test_split rejects the size and __init__ raises.
ProcessInteractionRaises ==
    /\ rec_pc = "normalized"
    /\ ~(~random_split /\ test_size.tenths > 10)
    /\ ~SplitSizeValid(Len(df_interaction), test_size)
    /\ rec_pc' = "error"
    /\ status' = "ValueError"
    /\ UNCHANGED <<raw_interaction, items, test_size, random_split, df_interaction,
                   n_users, n_items, train_index, test_index, train_mat, test_mat,
                   call, predict_out, ret>>
    /\ UNCHANGED mmr_vars

NextSplit ==
    \/ GetInteraction
    \/ ProcessInteraction
    \/ ProcessInteractionRaises

SpecSplit == InitSplit /\ [][NextSplit]_vars

\* ------------------------------------------------------------- prediction
\* A variant of the seen items that reads the train matrix only.
SeenItemsInTrain(user_id) ==
    {train_mat.entries[p][2] :
        p \in {r \in DOMAIN train_mat.entries : train_mat.entries[r][1] = user_id}}

\* base.py 101: the itemId column of the rows of the full table whose userId
\* is user_id.
SeenItems(user_id) ==
    {df_interaction[p][2] :
        p \in {r \in DOMAIN df_interaction : df_interaction[r][1] = user_id}}

\* base.py 100-104: the scorer's vector with -inf written at the seen items.
PredictForUserIdUnseenOf(user_id, prediction) ==
    [i \in DOMAIN prediction |->
        IF i \in SeenItems(user_id) THEN NegInf ELSE prediction[i]]

\* base.py 108: np.argpartition(-prediction, top_n) needs 0 <= top_n < len.
KthInBounds(prediction, top_n) == top_n < Cardinality(DOMAIN prediction)

\* base.py 108-109: the first top_n places of an argpartition: top_n
\* distinct indices, in an order the partition does not fix, none scoring
\* below an index left out.
TopNSelections(prediction, top_n) ==
    {sel \in [1..top_n -> DOMAIN prediction] :
        /\ \A p, r \in 1..top_n : p # r => sel[p] # sel[r]
        /\ \A i \in Range(sel) :
              \A j \in DOMAIN prediction \ Range(sel) : prediction[i] >= prediction[j]}

\* base.py 110: {key: prediction[key] for key in result_args}, in dict order.
TopNMapping(prediction, sel) == [p \in DOMAIN sel |-> <<sel[p], prediction[sel[p]]>>]

\* base.py 116-118: sort_values(by="scores", ascending=False): the rows in
\* an order of descending score (rows of equal score in either order).
SortedDescending(cands) ==
    {[p \in DOMAIN cands |-> cands[perm[p]]] : perm \in
        {f \in Permutations1(Len(cands)) :
            \A p, r \in DOMAIN cands : p < r => cands[f[p]][2] >= cands[f[r]][2]}}

\* The catalog rows of one item code, in catalog order, or one row without
\* attributes when the catalog has none.
RECURSIVE CatalogMatches(_, _)
CatalogMatches(catalog, code) ==
    IF catalog = <<>> THEN <<>>
    ELSE (IF Head(catalog).itemId = code THEN <<Head(catalog).title>> ELSE <<>>)
             \o CatalogMatches(Tail(catalog), code)

\* base.py 119: candidates.merge(self.items, how="left", on="itemId").
RECURSIVE MergeLeft(_, _)
MergeLeft(cands, catalog) ==
    IF cands = <<>> THEN <<>>
    ELSE LET c == Head(cands)
             found == CatalogMatches(catalog, c[1])
             titles == IF found = <<>> THEN <<"nan">> ELSE found
         IN  [p \in DOMAIN titles |->
                 [itemId |-> c[1], scores |-> c[2], title |-> titles[p]]]
             \o MergeLeft(Tail(cands), catalog)

\* What self.predict may return for one user: one score per item code.
ScoreVectors == [0..(n_items - 1) -> ScoreVals]

\* A recommender after __init__ has returned: the table normalized and
\* split at the contiguous cutoff test_size = 2.
InitPredict ==
    /\ MMRIdle
    /\ raw_interaction \in SeqsUpTo(RawUserIds \X RawItemIds \X InteractionVals, MaxRows)
    /\ items \in Catalogs
    /\ test_size = [kind |-> "i", tenths |-> 20]
    /\ random_split = FALSE
    /\ df_interaction = GetInteractionOf(raw_interaction)
    /\ n_users = MaxPlusOne(df_interaction, 1)
    /\ n_items = MaxPlusOne(df_interaction, 2)
    /\ train_index = ContiguousTrain(Len(df_interaction), test_size)
    /\ test_index = ContiguousTest(Len(df_interaction), test_size)
    /\ train_mat = CooMatrix(df_interaction, train_index, n_users, n_items)
    /\ test_mat = CooMatrix(df_interaction, test_index, n_users, n_items)
    /\ rec_pc = "ready"
    /\ NoCall

RecUnchanged ==
    /\ UNCHANGED <<raw_interaction, items, test_size, random_split, df_interaction,
                   n_users, n_items, train_index, test_index, train_mat, test_mat,
                   rec_pc>>
    /\ UNCHANGED mmr_vars

\* base.py 100-104: predict_for_userId_unseen(user_id).
PredictForUserIdUnseen ==
    /\ rec_pc = "ready"
    /\ call = <<>>
    /\ \E user_id \in 0..(n_users - 1), prediction \in ScoreVectors :
          /\ call' = [op |-> "predict_for_userId_unseen", user_id |-> user_id, top_n |-> 0]
          /\ predict_out' = prediction
          /\ ret' = PredictForUserIdUnseenOf(user_id, prediction)
          /\ status' = "ok"
    /\ RecUnchanged

\* base.py 106-110: predict_top_n_unseen(user_id, top_n).
PredictTopNUnseen ==
    /\ rec_pc = "ready"
    /\ call = <<>>
    /\ \E user_id \in 0..(n_users - 1), top_n \in 1..MaxTopN, prediction \in ScoreVectors :
          LET unseen == PredictForUserIdUnseenOf(user_id, prediction) IN
          /\ call' = [op |-> "predict_top_n_unseen", user_id |-> user_id, top_n |-> top_n]
          /\ predict_out' = prediction
          /\ IF KthInBounds(unseen, top_n)
             THEN /\ \E sel \in TopNSelections(unseen, top_n) :
                        ret' = TopNMapping(unseen, sel)
                  /\ status' = "ok"
             ELSE /\ ret' = <<>>
                  /\ status' = "ValueError"
    /\ RecUnchanged

\* base.py 112-119: predict_top_n_item(user_id, top_n).
PredictTopNItem ==
    /\ rec_pc = "ready"
    /\ call = <<>>
    /\ \E user_id \in 0..(n_users - 1), top_n \in 1..MaxTopN, prediction \in ScoreVectors :
          LET unseen == PredictForUserIdUnseenOf(user_id, prediction) IN
          /\ call' = [op |-> "predict_top_n_item", user_id |-> user_id, top_n |-> top_n]
          /\ predict_out' = prediction
          /\ IF KthInBounds(unseen, top_n)
             THEN /\ \E sel \in TopNSelections(unseen, top_n) :
                        \E candidates \in SortedDescending(TopNMapping(unseen, sel)) :
                            ret' = MergeLeft(candidates, items)
                  /\ status' = "ok"
             ELSE /\ ret' = <<>>
                  /\ status' = "ValueError"
    /\ RecUnchanged

\* The caller has taken the result; the recommender itself is as it was,
\* ready for the next call.
CallDone ==
    /\ rec_pc = "ready"
    /\ call # <<>>
    /\ call' = <<>> /\ predict_out' = <<>> /\ ret' = <<>> /\ status' = "ok"
    /\ RecUnchanged

NextPredict ==
    \/ PredictForUserIdUnseen
    \/ PredictTopNUnseen
    \/ PredictTopNItem
    \/ CallDone

SpecPredict == InitPredict /\ [][NextPredict]_vars


\* ------------------------------------------------- claims on construction
\* Row p of the table is the first row holding its value in column c.
FirstSeenAt(table, c, p) == \A t \in 1..(p - 1) : table[t][c] # table[p][c]

\* The codes of column c are a bijection from the distinct raw ids onto
\* 0..d-1.
CodesAreDense(c) ==
    /\ \A p, r \in DOMAIN raw_interaction :
          (raw_interaction[p][c] = raw_interaction[r][c])
              <=> (df_interaction[p][c] = df_interaction[r][c])
    /\ {df_interaction[p][c] : p \in DOMAIN df_interaction}
          = 0..(Cardinality({raw_interaction[p][c] : p \in DOMAIN raw_interaction}) - 1)

IsContiguousPolicy == ~random_split /\ test_size.tenths > 10

\* C8: when process_interaction returns, every source row is in exactly one
\* of train and test, train.nnz + test.nnz is the number of rows, both
\* matrices have the shape (numUsers, numItems) taken from the full table,
\* and under the contiguous policy test is the first int(test_size) rows in
\* original order (all of them when there are fewer) and train the rest.
C8_SplitPartition ==
    rec_pc = "ready" =>
        LET n == Len(df_interaction)
            cut == test_size.tenths \div 10
        IN  /\ Nnz(train_mat) + Nnz(test_mat) = n
            /\ Range(train_index) \cup Range(test_index) = 1..n
            /\ Range(train_index) \cap Range(test_index) = {}
            /\ Len(train_index) + Len(test_index) = n
            /\ \A p \in DOMAIN train_index :
                  train_mat.entries[p] = df_interaction[train_index[p]]
            /\ \A p \in DOMAIN test_index :
                  test_mat.entries[p] = df_interaction[test_index[p]]
            /\ train_mat.shape = test_mat.shape
            /\ \A side \in {train_index, test_index} :
                  \A p \in DOMAIN side :
                      /\ df_interaction[side[p]][1] < train_mat.shape[1]
                      /\ df_interaction[side[p]][2] < train_mat.shape[2]
            /\ \E p \in 1..n : df_interaction[p][1] + 1 = train_mat.shape[1]
            /\ \E p \in 1..n : df_interaction[p][2] + 1 = train_mat.shape[2]
            /\ IsContiguousPolicy =>
                  /\ Len(test_index) = Min(cut, n)
                  /\ \A p \in DOMAIN test_index : test_index[p] = p
                  /\ \A p \in DOMAIN train_index : train_index[p] = cut + p

\* A contiguous split at int(2.5) = 2 with rows on both sides, and an item
\* code that occurs in test only.
C8_Witness ==
    /\ rec_pc = "ready"
    /\ Len(df_interaction) = 3
    /\ IsContiguousPolicy /\ test_size.kind = "f"
    /\ test_index = <<1, 2>> /\ train_index = <<3>>
    /\ \E p \in Range(test_index) :
          \A r \in Range(train_index) : df_interaction[r][2] # df_interaction[p][2]

\* --------------------------------------------------- claims on prediction
\* The item codes that occur with user u in a stored entry of the matrix.
ItemsIn(mat, u) == {e[2] : e \in {x \in Range(mat.entries) : x[1] = u}}

\* C7: the vector predict_for_userId_unseen returns has length numItems,
\* holds -inf at every item code that occurs with the user in a train or a
\* test row, and at every other code the score the scorer returned.
C7_UnseenMasking ==
    (call # <<>> /\ call.op = "predict_for_userId_unseen") =>
        /\ DOMAIN ret = 0..(n_items - 1)
        /\ \A i \in 0..(n_items - 1) :
              ret[i] = IF i \in ItemsIn(train_mat, call.user_id)
                              \cup ItemsIn(test_mat, call.user_id)
                       THEN NegInf
                       ELSE predict_out[i]

\* The user has an item in a test row only, and an item never seen.
C7_Witness ==
    /\ call # <<>> /\ call.op = "predict_for_userId_unseen"
    /\ \E i \in ItemsIn(test_mat, call.user_id) \ ItemsIn(train_mat, call.user_id) :
          ret[i] = NegInf
    /\ \E i \in DOMAIN ret : ret[i] = 2 /\ ret[i] = predict_out[i]
    /\ \E i \in DOMAIN ret : ret[i] = 1

\* C6: every item code in the mapping predict_top_n_unseen returns is an
\* item the user has not interacted with, and no unseen item left out of
\* the mapping scores strictly higher than an item in it.
C6_TopNOnlyUnseen ==
    (call # <<>> /\ call.op = "predict_top_n_unseen" /\ status = "ok") =>
        LET keys == {ret[p][1] : p \in DOMAIN ret}
            seen == ItemsIn(train_mat, call.user_id) \cup ItemsIn(test_mat, call.user_id)
        IN  /\ keys \cap seen = {}
            /\ \A j \in (0..(n_items - 1)) \ (keys \cup seen) :
                  \A p \in DOMAIN ret : predict_out[j] <= ret[p][2]

\* C5: for every top_n >= 1 predict_top_n_item returns, without failing, a
\* table of top_n rows when top_n <= numItems and of numItems rows
\* otherwise, in descending order of score.
C5_TopNRows ==
    (call # <<>> /\ call.op = "predict_top_n_item") =>
        /\ status = "ok"
        /\ Len(ret) = Min(call.top_n, n_items)
        /\ \A p, r \in DOMAIN ret : p < r => ret[p].scores >= ret[r].scores

====
